---- MODULE Spec2Model ----
(***************************************************************************)
(* Shape-level and control-flow model of scratch_ViT.ipynb: the Vision     *)
(* Transformer classes (construction and forward pass) and the reference   *)
(* training loop.  Tensors are represented by their shapes (sequences of   *)
(* integers); Python exceptions by their names.                            *)
(***************************************************************************)
EXTENDS Integers, Sequences, FiniteSets, TLC

VARIABLES
    config,     \* arguments of the VisionTransformer(...) call
    vit,        \* the VisionTransformer object (or the exception its constructor raised)
    pc,         \* position inside VisionTransformer.forward
    images,     \* shape of the batch handed to forward
    x,          \* shape of the local tensor x inside forward
    trace,      \* sub-modules called so far by the current forward call
    layer,      \* number of encoder blocks already applied by the current forward call
    cls_rows,   \* sequence indices of the encoder output read by the classifier
    err,        \* exception raised by the current forward call ("" if none)
    posenc,     \* a PositionalEncoding module built on its own
    pe_in,      \* shape of the token sequence handed to posenc.forward
    pe_out,     \* what that forward call returned or raised
    mha,        \* a MultiHeadAttention module built on its own (or the exception raised)
    mha_args,   \* arguments of the MultiHeadAttention(...) call
    mha_in,     \* shape of the tensor handed to mha.forward
    mha_out,    \* what that forward call returned or raised
    logits,     \* output of the classifier's Linear layer, a (B, num_classes) matrix
    probs,      \* output of the classifier's Softmax layer
    tpc,            \* position inside the training cell
    epoch,          \* loop variable of `for epoch in range(epochs)`
    mode,           \* transformer.training: "train" or "eval"
    tensors,        \* number of updates applied to each registered tensor of the model
    grads,          \* tensors whose .grad is populated
    opt_params,     \* tensors handed to Adam(transformer.parameters())
    n_train,        \* len(train_loader)
    n_valid,        \* len(valid_loader)
    ti,             \* training batches drawn so far in this epoch (the code's i is ti - 1)
    vj,             \* validation batches drawn so far in this validation loop
    data,           \* the batch bound to `data` by the training loop
    drawn,          \* the batch last yielded by valid_loader
    inputs,         \* the batch bound to `inputs` (and `labels`)
    outputs,        \* result of the last forward call
    loss,           \* criterion(outputs, labels) of the last forward call
    training_loss,  \* the terms summed into training_loss
    correct,        \* the outputs whose hit counts are summed into correct
    total,
    valid_loss,     \* the terms summed into valid_loss
    correct_valid,  \* the outputs whose hit counts are summed into correct_valid
    total_valid,
    fed,            \* history: every batch passed to transformer(...), with the mode it ran in
    step_modes,     \* history: transformer.training at each optimizer.step() of this epoch
    printed         \* the lines printed, one per finished epoch

vitVars == <<config, vit, pc, images, x, trace, layer, cls_rows, err>>
peVars == <<posenc, pe_in, pe_out>>
mhaVars == <<mha, mha_args, mha_in, mha_out>>
smVars == <<logits, probs>>
trainVars == <<tpc, epoch, mode, tensors, grads, opt_params, n_train, n_valid, ti, vj, data, drawn,
               inputs, outputs, loss, training_loss, correct, total, valid_loss, correct_valid,
               total_valid, fed, step_modes, printed>>
vars == <<vitVars, peVars, mhaVars, smVars, trainVars>>

----------------------------------------------------------------------------
(* Bounds of the explored configurations and inputs *)
MaxDim == 3
MaxHeads == 2
MaxImg == 3
MaxPatch == 2
MaxLayers == 2
MaxBatch == 2
MaxChan == 2
MaxClasses == 2
MaxSeq == 3
MaxLogit == 4       \* logits range over {-MaxLogit, -1, 0}
Epochs == 2         \* epochs run (the notebook runs 10)
MaxTrain == 3       \* largest len(train_loader)
MaxValid == 2       \* largest len(valid_loader)
BatchLen == 2       \* samples per batch (the notebook uses 128)
ExpBits == 3        \* fractional bits kept by the exponential before it underflows to 0

(* Training parameters of the notebook (the reference configuration) *)
model_dim == 9
num_classes == 10
img_side == 32
patch_side == 16
num_channels == 1
num_heads == 3
num_layers == 3
r_mlp == 4

----------------------------------------------------------------------------
(* Python integer arithmetic *)

\* a % b for b # 0: the result has the sign of the divisor
PyMod(a, b) == IF b > 0 THEN a % b ELSE -((-a) % (-b))

\* a // b for b # 0: floor division
PyFloorDiv(a, b) == IF b > 0 THEN a \div b ELSE (-a) \div (-b)

\* range(n) as a set
Range(n) == 0 .. (n - 1)

----------------------------------------------------------------------------
(* torch.nn library layers, at the level of shapes *)

Raised(e) == [ok |-> FALSE, exc |-> e, shape |-> <<>>]
Value(s) == [ok |-> TRUE, exc |-> "", shape |-> s]

\* output extent of an unpadded convolution along one spatial axis
ConvOut(n, k, s) == ((n - k) \div s) + 1

\* nn.Conv2d(in_ch, out_ch, kernel_size=ks, stride=ks) applied to a (B, C, H, W) batch
Conv2d(in_ch, out_ch, ks, inp) ==
    IF inp[2] # in_ch THEN Raised("RuntimeError")
    ELSE IF inp[3] < ks[1] \/ inp[4] < ks[2] THEN Raised("RuntimeError")
    ELSE Value(<<inp[1], out_ch, ConvOut(inp[3], ks[1], ks[1]), ConvOut(inp[4], ks[2], ks[2])>>)

\* nn.Linear(in_f, out_f) applied to a tensor whose last axis must be in_f
Linear(in_f, out_f, s) ==
    IF s[Len(s)] # in_f THEN Raised("RuntimeError")
    ELSE Value([i \in 1..Len(s) |-> IF i = Len(s) THEN out_f ELSE s[i]])

\* nn.LayerNorm(d) applied to a tensor whose last axis must be d
LayerNorm(d, s) == IF s[Len(s)] # d THEN Raised("RuntimeError") ELSE Value(s)

\* broadcasting of two shapes of equal rank (a + b)
Broadcastable(a, b) == \A i \in 1..Len(a) : a[i] = b[i] \/ a[i] = 1 \/ b[i] = 1
Broadcast(a, b) ==
    IF Broadcastable(a, b)
    THEN Value([i \in 1..Len(a) |-> IF a[i] = 1 THEN b[i] ELSE a[i]])
    ELSE Raised("RuntimeError")

\* run the next layer on a result unless an exception is already propagating
Then(r, F(_)) == IF r.ok THEN F(r.shape) ELSE r

\* product of the axes of s from axis `from` on
RECURSIVE Numel(_, _)
Numel(s, from) == IF from > Len(s) THEN 1 ELSE s[from] * Numel(s, from + 1)

\* Tensor.flatten(2) of a 4-axis tensor
Flatten2(s) == <<s[1], s[2], Numel(s, 3)>>

\* Tensor.transpose(1, 2) of a 3-axis tensor
Transpose12(s) == <<s[1], s[3], s[2]>>

----------------------------------------------------------------------------
(* class PatchEmbedding *)

PatchEmbedding_init(d, img, patch, chans) ==
    [model_dim |-> d, img_size |-> img, patch_size |-> patch, num_channels |-> chans]

PatchEmbedding_forward(self, inp) ==
    LET c == Conv2d(self.num_channels, self.model_dim, self.patch_size, inp)
    IN  Then(c, LAMBDA s : Value(Transpose12(Flatten2(s))))

----------------------------------------------------------------------------
(* class PositionalEncoding *)

\* the entry written into pe[pos][i], kept as the closed-form term
PEEntry(pos, i, d) ==
    IF i % 2 = 0 THEN [fn |-> "sin", pos |-> pos, exp |-> i, dim |-> d]
    ELSE [fn |-> "cos", pos |-> pos, exp |-> i - 1, dim |-> d]

PositionalEncoding_init(d, max_seq_length) ==
    [cls_token |-> <<1, 1, d>>,
     pe_shape  |-> <<1, max_seq_length, d>>,
     pe        |-> [pos \in Range(max_seq_length) |-> [i \in Range(d) |-> PEEntry(pos, i, d)]]]

\* torch.cat((a, b), dim=1) of two 3-axis tensors
Cat1(a, b) ==
    IF a[1] = b[1] /\ a[3] = b[3] THEN Value(<<a[1], a[2] + b[2], a[3]>>)
    ELSE Raised("RuntimeError")

PositionalEncoding_forward(self, s) ==
    LET tokens_batch == <<s[1], self.cls_token[2], self.cls_token[3]>>
    IN  Then(Cat1(tokens_batch, s), LAMBDA c : Broadcast(c, self.pe_shape))

----------------------------------------------------------------------------
(* class AttentionHead *)

AttentionHead_init(d, head_size) == [model_dim |-> d, head_size |-> head_size]

AttentionHead_forward(self, s) ==
    LET Q == Linear(self.model_dim, self.head_size, s)
    IN  \* Q @ K^T is (B, S, S); scaled, softmaxed and multiplied by V it is (B, S, head_size)
        Then(Q, LAMBDA q : Value(<<q[1], q[2], self.head_size>>))

----------------------------------------------------------------------------
(* class MultiHeadAttention *)

MultiHeadAttention_init(d, heads) ==
    IF heads = 0 THEN [ok |-> FALSE, exc |-> "ZeroDivisionError"]
    ELSE LET hs == PyFloorDiv(d, heads)
         IN  IF heads > 0 /\ hs < 0 THEN [ok |-> FALSE, exc |-> "RuntimeError"]
             ELSE [ok |-> TRUE, exc |-> "", model_dim |-> d, head_size |-> hs,
                   heads |-> [h \in 1 .. (IF heads > 0 THEN heads ELSE 0) |-> AttentionHead_init(d, hs)]]

MultiHeadAttention_forward(self, s) ==
    LET outs == [h \in 1..Len(self.heads) |-> AttentionHead_forward(self.heads[h], s)]
    IN  IF Len(self.heads) = 0 THEN Raised("RuntimeError")
        ELSE IF \E h \in 1..Len(outs) : ~outs[h].ok THEN Raised("RuntimeError")
        ELSE Linear(self.model_dim, self.model_dim,
                    <<s[1], s[2], Len(self.heads) * self.head_size>>)

----------------------------------------------------------------------------
(* class TransformerEncoder *)

TransformerEncoder_init(d, heads) ==
    LET att == MultiHeadAttention_init(d, heads)
    IN  IF att.ok THEN [ok |-> TRUE, exc |-> "", model_dim |-> d, num_heads |-> heads, mha |-> att]
        ELSE [ok |-> FALSE, exc |-> att.exc]

\* self.mlp: Linear(d, d * r_mlp), GELU, Linear(d * r_mlp, d)
Mlp(d, s) == Then(Linear(d, d * r_mlp, s), LAMBDA h : Linear(d * r_mlp, d, h))

TransformerEncoder_forward(self, s) ==
    LET d    == self.model_dim
        att  == Then(LayerNorm(d, s), LAMBDA n : MultiHeadAttention_forward(self.mha, n))
        out1 == Then(att, LAMBDA a : Broadcast(s, a))
    IN  Then(out1, LAMBDA o :
             Then(Then(LayerNorm(d, o), LAMBDA n : Mlp(d, n)), LAMBDA m : Broadcast(o, m)))

----------------------------------------------------------------------------
(* class VisionTransformer *)

NoModel == [ok |-> FALSE, exc |-> "", built |-> <<>>]
Failed(e) == [ok |-> FALSE, exc |-> e, built |-> <<>>]

\* outcome of `assert a % b == 0`-style tests: "ok", or the exception raised
DivisibleCheck(a, b) ==
    IF b = 0 THEN "ZeroDivisionError"
    ELSE IF PyMod(a, b) = 0 THEN "ok" ELSE "AssertionError"

\* variant: only the height is tested against the patch
CheckImgDivisible_HeightOnly(img, patch) == DivisibleCheck(img[1], patch[1])

\* assert img_size[0] % patch_size[0] == 0 and img_size[1] % patch_size[1] == 0
CheckImgDivisible(img, patch) ==
    LET first == DivisibleCheck(img[1], patch[1])
    IN  IF first # "ok" THEN first ELSE DivisibleCheck(img[2], patch[2])

\* assert model_dim % num_heads == 0
CheckHeadsDivisible(d, heads) == DivisibleCheck(d, heads)

\* variant: the patch is taken to be square
NumPatches_SquarePatch(img, patch) == PyFloorDiv(img[1] * img[2], patch[1] * patch[1])

NumPatches(img, patch) == PyFloorDiv(img[1] * img[2], patch[1] * patch[2])

VisionTransformer_init(cfg) ==
    LET a1 == CheckImgDivisible(cfg.img_size, cfg.patch_size)
        a2 == CheckHeadsDivisible(cfg.model_dim, cfg.num_heads)
        np == NumPatches(cfg.img_size, cfg.patch_size)
        enc == TransformerEncoder_init(cfg.model_dim, cfg.num_heads)
    IN  IF a1 # "ok" THEN Failed(a1)
        ELSE IF a2 # "ok" THEN Failed(a2)
        ELSE IF cfg.patch_size[1] * cfg.patch_size[2] = 0 THEN Failed("ZeroDivisionError")
        ELSE IF cfg.num_layers > 0 /\ ~enc.ok THEN Failed(enc.exc)
        ELSE [ok |-> TRUE, exc |-> "",
              model_dim |-> cfg.model_dim, num_classes |-> cfg.num_classes,
              img_size |-> cfg.img_size, patch_size |-> cfg.patch_size,
              num_channels |-> cfg.num_channels, num_heads |-> cfg.num_heads,
              num_patches |-> np,
              max_seq_length |-> np + 1,
              patch_embedding |-> PatchEmbedding_init(cfg.model_dim, cfg.img_size,
                                                      cfg.patch_size, cfg.num_channels),
              positional_encoding |-> PositionalEncoding_init(cfg.model_dim, np + 1),
              transformer_encoder |-> [l \in 1..cfg.num_layers |-> enc],
              built |-> <<"patch_embedding", "positional_encoding">>
                        \o [l \in 1..cfg.num_layers |-> "transformer_encoder"]
                        \o <<"classifer">>]

\* the sequence row the classifier is fed: x[:, 0]
ClsIndex == 0

\* variant: the whole token sequence is classified, not its first row
Classifer_AllRows(self, s) == Linear(self.model_dim, self.num_classes, s)

\* self.classifer(x[:, 0]): Linear(model_dim, num_classes) then Softmax(dim=1)
Classifer(self, s) ==
    IF s[2] <= ClsIndex THEN Raised("IndexError")
    ELSE Linear(self.model_dim, self.num_classes, <<s[1], s[3]>>)

----------------------------------------------------------------------------
(* Configurations and inputs explored *)

SmallConfigs ==
    [model_dim : 1..MaxDim, num_classes : 1..MaxClasses,
     img_size : (1..MaxImg) \X (1..MaxImg), patch_size : (0..MaxPatch) \X (0..MaxPatch),
     num_channels : 1..MaxChan, num_heads : 0..MaxHeads, num_layers : 0..MaxLayers]

RefConfig ==
    [model_dim |-> model_dim, num_classes |-> num_classes,
     img_size |-> <<img_side, img_side>>, patch_size |-> <<patch_side, patch_side>>,
     num_channels |-> num_channels, num_heads |-> num_heads, num_layers |-> num_layers]

Configs == SmallConfigs \cup {RefConfig}

\* spatial extents tried for a model configured with extent n
Extents(n) == {n - 1, n, n + 1}

Inputs(m) ==
    {<<b, c, h, w>> : b \in 1..MaxBatch, c \in 1..MaxChan,
                      h \in Extents(m.img_size[1]), w \in Extents(m.img_size[2])}

----------------------------------------------------------------------------
(* Construction and the forward pass, one action per sub-module call *)

InitViT ==
    /\ config = <<>>
    /\ vit = NoModel
    /\ pc = "unbuilt"
    /\ images = <<>>
    /\ x = <<>>
    /\ trace = <<>>
    /\ layer = 0
    /\ cls_rows = {}
    /\ err = ""

\* transformer = VisionTransformer(...)
Construct ==
    /\ pc = "unbuilt"
    /\ \E cfg \in Configs :
          /\ config' = cfg
          /\ vit' = VisionTransformer_init(cfg)
          /\ pc' = IF vit'.ok THEN "idle" ELSE "failed"
    /\ UNCHANGED <<images, x, trace, layer, cls_rows, err>>
    /\ UNCHANGED <<peVars, mhaVars, smVars, trainVars>>

\* outputs = transformer(inputs)
CallForward ==
    /\ pc = "idle"
    /\ \E inp \in Inputs(vit) :
          /\ images' = inp
          /\ x' = inp
    /\ pc' = "patch_embedding"
    /\ trace' = <<>>
    /\ layer' = 0
    /\ cls_rows' = {}
    /\ err' = ""
    /\ UNCHANGED <<config, vit>>
    /\ UNCHANGED <<peVars, mhaVars, smVars, trainVars>>

\* one statement of forward: on success move to `next`, otherwise propagate the exception
Step(name, r, next) ==
    /\ trace' = Append(trace, name)
    /\ IF r.ok
       THEN /\ x' = r.shape
            /\ pc' = next
            /\ err' = ""
       ELSE /\ pc' = "raised"
            /\ err' = r.exc
            /\ UNCHANGED x
    /\ UNCHANGED <<config, vit, images>>
    /\ UNCHANGED <<peVars, mhaVars, smVars, trainVars>>

\* x = self.patch_embedding(images)
PatchEmbeddingStep ==
    /\ pc = "patch_embedding"
    /\ Step("patch_embedding", PatchEmbedding_forward(vit.patch_embedding, images),
            "positional_encoding")
    /\ UNCHANGED <<layer, cls_rows>>

\* x = self.positional_encoding(x)
PositionalEncodingStep ==
    /\ pc = "positional_encoding"
    /\ Step("positional_encoding", PositionalEncoding_forward(vit.positional_encoding, x),
            "transformer_encoder")
    /\ UNCHANGED <<layer, cls_rows>>

\* x = self.transformer_encoder(x): the next block of the nn.Sequential
TransformerEncoderStep ==
    /\ pc = "transformer_encoder"
    /\ layer < Len(vit.transformer_encoder)
    /\ Step("transformer_encoder",
            TransformerEncoder_forward(vit.transformer_encoder[layer + 1], x),
            "transformer_encoder")
    /\ layer' = layer + 1
    /\ UNCHANGED cls_rows

\* x = self.classifer(x[:, 0]); return x
ClassiferStep ==
    /\ pc = "transformer_encoder"
    /\ layer = Len(vit.transformer_encoder)
    /\ Step("classifer", Classifer(vit, x), "returned")
    /\ cls_rows' = {ClsIndex}
    /\ UNCHANGED layer

\* the call is over (outputs bound, or the exception handled): the model can be called again
EndForward ==
    /\ pc \in {"returned", "raised"}
    /\ pc' = "idle"
    /\ images' = <<>>
    /\ x' = <<>>
    /\ trace' = <<>>
    /\ layer' = 0
    /\ cls_rows' = {}
    /\ err' = ""
    /\ UNCHANGED <<config, vit>>
    /\ UNCHANGED <<peVars, mhaVars, smVars, trainVars>>

NextViT ==
    \/ Construct
    \/ CallForward
    \/ PatchEmbeddingStep
    \/ PositionalEncodingStep
    \/ TransformerEncoderStep
    \/ ClassiferStep
    \/ EndForward

----------------------------------------------------------------------------
(* PositionalEncoding used on its own *)

InitPE ==
    /\ \E d \in 1..MaxDim, m \in 1..MaxSeq : posenc = PositionalEncoding_init(d, m)
    /\ pe_in = <<>>
    /\ pe_out = Raised("")

\* posenc(x) for a token sequence x of shape (B, P, D)
PECall ==
    /\ \E b \in 1..MaxBatch, p \in 0..(MaxSeq + 1), d \in 1..MaxDim :
          /\ pe_in' = <<b, p, d>>
          /\ pe_out' = PositionalEncoding_forward(posenc, <<b, p, d>>)
    /\ UNCHANGED posenc
    /\ UNCHANGED <<vitVars, mhaVars, smVars, trainVars>>

NextPE == PECall

----------------------------------------------------------------------------
(* MultiHeadAttention used on its own *)

InitMHA ==
    /\ mha = [ok |-> FALSE, exc |-> ""]
    /\ mha_args = <<>>
    /\ mha_in = <<>>
    /\ mha_out = Raised("")

\* MultiHeadAttention(model_dim, num_heads)
MHAConstruct ==
    /\ mha_args = <<>>
    /\ \E d \in 1..(MaxDim + 1), h \in 0..(MaxHeads + 1) :
          /\ mha_args' = <<d, h>>
          /\ mha' = MultiHeadAttention_init(d, h)
    /\ UNCHANGED <<mha_in, mha_out>>
    /\ UNCHANGED <<vitVars, peVars, smVars, trainVars>>

\* mha(x) for a tensor x of shape (B, S, D)
MHACall ==
    /\ mha.ok
    /\ \E b \in 1..MaxBatch, sq \in 1..MaxSeq, d \in 1..(MaxDim + 1) :
          /\ mha_in' = <<b, sq, d>>
          /\ mha_out' = MultiHeadAttention_forward(mha, <<b, sq, d>>)
    /\ UNCHANGED <<mha, mha_args>>
    /\ UNCHANGED <<vitVars, peVars, smVars, trainVars>>

NextMHA ==
    \/ MHAConstruct
    \/ MHACall

----------------------------------------------------------------------------
(* The classifier's nn.Softmax(dim=1), computed as exp(v - max) / sum(exp(v - max))  *)
(* in fixed point: entries are fractions [num, den]; the exponential is taken to     *)
(* base 2 and underflows to 0 below 2^-ExpBits, as a float exponential does.         *)

SoftmaxDim == 1

RECURSIVE Pow2(_)
Pow2(n) == IF n = 0 THEN 1 ELSE 2 * Pow2(n - 1)

\* exp(t) for t <= 0, scaled by 2^ExpBits
ExpFixed(t) == IF ExpBits + t >= 0 THEN Pow2(ExpBits + t) ELSE 0

MaxOf(S) == CHOOSE v \in S : \A w \in S : v >= w

RECURSIVE SumOver(_, _)
SumOver(S, f) ==
    IF S = {} THEN 0
    ELSE LET e == CHOOSE e \in S : TRUE IN f[e] + SumOver(S \ {e}, f)

\* the index pairs normalised together with entry (b, k) when reducing along axis dim
Along(m, b, k, dim) ==
    IF dim = 1 THEN {<<b, j>> : j \in 1..Len(m[b])}
    ELSE {<<i, k>> : i \in 1..Len(m)}

Softmax(m, dim) ==
    [b \in 1..Len(m) |->
        [k \in 1..Len(m[b]) |->
            LET grp == Along(m, b, k, dim)
                top == MaxOf({m[p[1]][p[2]] : p \in grp})
                e   == [p \in grp |-> ExpFixed(m[p[1]][p[2]] - top)]
            IN  [num |-> e[<<b, k>>], den |-> SumOver(grp, e)]]]

LogitVals == {-MaxLogit, -1, 0}

InitSM ==
    /\ \E b \in 1..MaxBatch, k \in 1..MaxClasses : logits \in [1..b -> [1..k -> LogitVals]]
    /\ probs = <<>>

\* variant: the softmax runs along the batch axis
ClassiferSoftmax_BatchAxis ==
    /\ probs = <<>>
    /\ probs' = Softmax(logits, SoftmaxDim - 1)
    /\ UNCHANGED logits
    /\ UNCHANGED <<vitVars, peVars, mhaVars, trainVars>>

\* the nn.Softmax(dim=1) layer of self.classifer
ClassiferSoftmax ==
    /\ probs = <<>>
    /\ probs' = Softmax(logits, SoftmaxDim)
    /\ UNCHANGED logits
    /\ UNCHANGED <<vitVars, peVars, mhaVars, trainVars>>

NextSM == ClassiferSoftmax

----------------------------------------------------------------------------
(* The training cell: transformer, optimizer and the epoch loop *)

\* tensors registered on the model: nn.Parameter / sub-module weights, and register_buffer
Registered ==
    [n \in {"patch_embedding.linear_project", "positional_encoding.cls_token",
            "positional_encoding.pe", "transformer_encoder", "classifer"} |->
        IF n = "positional_encoding.pe" THEN "buffer" ELSE "parameter"]

\* variant: the positional table is registered as a parameter too
Parameters_WithBuffers == DOMAIN Registered

\* transformer.parameters()
Parameters == {n \in DOMAIN Registered : Registered[n] = "parameter"}

NoBatch == [kind |-> "none", epoch |-> 0, idx |-> 0]
NoOutput == [batch |-> NoBatch, params |-> <<>>]
NoLoss == [batch |-> NoBatch, params |-> <<>>]

InitTrain ==
    /\ tpc = "epoch_begin"
    /\ epoch = 0
    /\ mode = "train"
    /\ tensors = [n \in DOMAIN Registered |-> 0]
    /\ grads = {}
    /\ opt_params = Parameters
    /\ n_train \in 1..MaxTrain
    /\ n_valid \in 1..MaxValid
    /\ ti = 0
    /\ vj = 0
    /\ data = NoBatch
    /\ drawn = NoBatch
    /\ inputs = NoBatch
    /\ outputs = NoOutput
    /\ loss = NoLoss
    /\ training_loss = <<>>
    /\ correct = <<>>
    /\ total = 0
    /\ valid_loss = <<>>
    /\ correct_valid = <<>>
    /\ total_valid = 0
    /\ fed = {}
    /\ step_modes = <<>>
    /\ printed = <<>>

\* the training cell before it is run
IdleTrain ==
    /\ tpc = "off"
    /\ epoch = 0
    /\ mode = "train"
    /\ tensors = <<>>
    /\ grads = {}
    /\ opt_params = {}
    /\ n_train = 0
    /\ n_valid = 0
    /\ ti = 0
    /\ vj = 0
    /\ data = NoBatch
    /\ drawn = NoBatch
    /\ inputs = NoBatch
    /\ outputs = NoOutput
    /\ loss = NoLoss
    /\ training_loss = <<>>
    /\ correct = <<>>
    /\ total = 0
    /\ valid_loss = <<>>
    /\ correct_valid = <<>>
    /\ total_valid = 0
    /\ fed = {}
    /\ step_modes = <<>>
    /\ printed = <<>>

\* the stand-alone modules and the softmax inputs before they are set up
IdlePE == posenc = <<>> /\ pe_in = <<>> /\ pe_out = Raised("")
IdleSM == logits = <<>> /\ probs = <<>>

notTrain == <<vitVars, peVars, mhaVars, smVars>>

\* for epoch in range(epochs): transformer.train(); training_loss = 0.0; correct = 0; total = 0
EpochBegin ==
    /\ tpc = "epoch_begin"
    /\ mode' = "train"
    /\ training_loss' = <<>>
    /\ correct' = <<>>
    /\ total' = 0
    /\ ti' = 0
    /\ step_modes' = <<>>
    /\ tpc' = "train_next"
    /\ UNCHANGED <<epoch, tensors, grads, opt_params, n_train, n_valid, vj, data, drawn, inputs,
                   outputs, loss, valid_loss, correct_valid, total_valid, fed, printed>>
    /\ UNCHANGED notTrain

\* variant: transformer.train() is called at the top of every training iteration
NextTrainBatch_TrainMode ==
    /\ tpc = "train_next"
    /\ ti < n_train
    /\ mode' = "train"
    /\ data' = [kind |-> "train", epoch |-> epoch, idx |-> ti]
    /\ inputs' = data'
    /\ ti' = ti + 1
    /\ tpc' = "zero_grad"
    /\ UNCHANGED <<epoch, tensors, grads, opt_params, n_train, n_valid, vj, drawn, outputs,
                   loss, training_loss, correct, total, valid_loss, correct_valid, total_valid,
                   fed, step_modes, printed>>
    /\ UNCHANGED notTrain

\* for i, data in enumerate(train_loader, 0): inputs, labels = data
NextTrainBatch ==
    /\ tpc = "train_next"
    /\ ti < n_train
    /\ data' = [kind |-> "train", epoch |-> epoch, idx |-> ti]
    /\ inputs' = data'
    /\ ti' = ti + 1
    /\ tpc' = "zero_grad"
    /\ UNCHANGED <<epoch, mode, tensors, grads, opt_params, n_train, n_valid, vj, drawn, outputs,
                   loss, training_loss, correct, total, valid_loss, correct_valid, total_valid,
                   fed, step_modes, printed>>
    /\ UNCHANGED notTrain

\* optimizer.zero_grad()
ZeroGrad ==
    /\ tpc = "zero_grad"
    /\ grads' = {}
    /\ tpc' = "train_forward"
    /\ UNCHANGED <<epoch, mode, tensors, opt_params, n_train, n_valid, ti, vj, data, drawn, inputs,
                   outputs, loss, training_loss, correct, total, valid_loss, correct_valid,
                   total_valid, fed, step_modes, printed>>
    /\ UNCHANGED notTrain

\* outputs = transformer(inputs); loss = criterion(outputs, labels)
Forward(loop) ==
    /\ outputs' = [batch |-> inputs, params |-> tensors]
    /\ loss' = [batch |-> inputs, params |-> tensors]
    /\ fed' = fed \cup {[batch |-> inputs, mode |-> mode, loop |-> loop]}
    /\ UNCHANGED <<mode, tensors, grads, opt_params>>

TrainForward ==
    /\ tpc = "train_forward"
    /\ Forward("train")
    /\ tpc' = "backward"
    /\ UNCHANGED <<epoch, n_train, n_valid, ti, vj, data, drawn, inputs, training_loss, correct,
                   total, valid_loss, correct_valid, total_valid, step_modes, printed>>
    /\ UNCHANGED notTrain

\* loss.backward()
Backward ==
    /\ tpc = "backward"
    /\ grads' = Parameters
    /\ tpc' = "opt_step"
    /\ UNCHANGED <<epoch, mode, tensors, opt_params, n_train, n_valid, ti, vj, data, drawn, inputs,
                   outputs, loss, training_loss, correct, total, valid_loss, correct_valid,
                   total_valid, fed, step_modes, printed>>
    /\ UNCHANGED notTrain

\* optimizer.step()
OptimizerStep ==
    /\ tpc = "opt_step"
    /\ tensors' = [n \in DOMAIN tensors |->
                      IF n \in opt_params /\ n \in grads THEN tensors[n] + 1 ELSE tensors[n]]
    /\ step_modes' = Append(step_modes, mode)
    /\ tpc' = "train_stats"
    /\ UNCHANGED <<epoch, mode, grads, opt_params, n_train, n_valid, ti, vj, data, drawn, inputs,
                   outputs, loss, training_loss, correct, total, valid_loss, correct_valid,
                   total_valid, fed, printed>>
    /\ UNCHANGED notTrain

\* training_loss += loss.item(); total += labels.size(0); correct += (predicted == labels).sum()
TrainStats ==
    /\ tpc = "train_stats"
    /\ training_loss' = Append(training_loss, loss)
    /\ total' = total + BatchLen
    /\ correct' = Append(correct, outputs)
    /\ tpc' = "eval_reset"
    /\ UNCHANGED <<epoch, mode, tensors, grads, opt_params, n_train, n_valid, ti, vj, data, drawn,
                   inputs, outputs, loss, valid_loss, correct_valid, total_valid, fed,
                   step_modes, printed>>
    /\ UNCHANGED notTrain

\* transformer.eval(); valid_loss = 0.0; correct_valid = 0; total_valid = 0
EvalReset ==
    /\ tpc = "eval_reset"
    /\ mode' = "eval"
    /\ valid_loss' = <<>>
    /\ correct_valid' = <<>>
    /\ total_valid' = 0
    /\ vj' = 0
    /\ tpc' = "valid_next"
    /\ UNCHANGED <<epoch, tensors, grads, opt_params, n_train, n_valid, ti, data, drawn, inputs,
                   outputs, loss, training_loss, correct, total, fed, step_modes, printed>>
    /\ UNCHANGED notTrain

\* variant: the batch yielded by valid_loader is kept
NextValidBatch_KeepsDrawn ==
    /\ tpc = "valid_next"
    /\ vj < n_valid
    /\ drawn' = [kind |-> "valid", epoch |-> epoch, idx |-> vj]
    /\ inputs' = drawn'
    /\ vj' = vj + 1
    /\ tpc' = "valid_forward"
    /\ UNCHANGED <<epoch, mode, tensors, grads, opt_params, n_train, n_valid, ti, data, outputs,
                   loss, training_loss, correct, total, valid_loss, correct_valid, total_valid,
                   fed, step_modes, printed>>
    /\ UNCHANGED notTrain

\* for inputs, labels in valid_loader: inputs, labels = data
NextValidBatch ==
    /\ tpc = "valid_next"
    /\ vj < n_valid
    /\ drawn' = [kind |-> "valid", epoch |-> epoch, idx |-> vj]
    /\ inputs' = data
    /\ vj' = vj + 1
    /\ tpc' = "valid_forward"
    /\ UNCHANGED <<epoch, mode, tensors, grads, opt_params, n_train, n_valid, ti, data, outputs,
                   loss, training_loss, correct, total, valid_loss, correct_valid, total_valid,
                   fed, step_modes, printed>>
    /\ UNCHANGED notTrain

\* outputs = transformer(inputs); ...; valid_loss += loss.item(); total_valid += ...; correct_valid += ...
ValidForward ==
    /\ tpc = "valid_forward"
    /\ Forward("valid")
    /\ valid_loss' = Append(valid_loss, loss')
    /\ total_valid' = total_valid + BatchLen
    /\ correct_valid' = Append(correct_valid, outputs')
    /\ tpc' = "valid_next"
    /\ UNCHANGED <<epoch, n_train, n_valid, ti, vj, data, drawn, inputs, training_loss, correct,
                   total, step_modes, printed>>
    /\ UNCHANGED notTrain

\* valid_loader is exhausted: back to the head of the training loop
ValidDone ==
    /\ tpc = "valid_next"
    /\ vj = n_valid
    /\ tpc' = "train_next"
    /\ UNCHANGED <<epoch, mode, tensors, grads, opt_params, n_train, n_valid, ti, vj, data, drawn,
                   inputs, outputs, loss, training_loss, correct, total, valid_loss,
                   correct_valid, total_valid, fed, step_modes, printed>>
    /\ UNCHANGED notTrain

\* train_loader is exhausted: the epoch's line is printed and the next epoch starts
ReportEpoch ==
    /\ tpc = "train_next"
    /\ ti = n_train
    /\ printed' = Append(printed,
                         [epoch |-> epoch + 1, correct |-> correct, total |-> total,
                          training_loss |-> training_loss, correct_valid |-> correct_valid,
                          total_valid |-> total_valid, valid_loss |-> valid_loss,
                          last_batch |-> data, params |-> tensors])
    /\ epoch' = epoch + 1
    /\ tpc' = IF epoch + 1 < Epochs THEN "epoch_begin" ELSE "done"
    /\ UNCHANGED <<mode, tensors, grads, opt_params, n_train, n_valid, ti, vj, data, drawn, inputs,
                   outputs, loss, training_loss, correct, total, valid_loss, correct_valid,
                   total_valid, fed, step_modes>>
    /\ UNCHANGED notTrain

NextTrain ==
    \/ EpochBegin
    \/ NextTrainBatch
    \/ ZeroGrad
    \/ TrainForward
    \/ Backward
    \/ OptimizerStep
    \/ TrainStats
    \/ EvalReset
    \/ NextValidBatch
    \/ ValidForward
    \/ ValidDone
    \/ ReportEpoch

----------------------------------------------------------------------------
(* Specifications *)

\* the VisionTransformer class: construction and forward
Init == InitViT /\ IdlePE /\ InitMHA /\ IdleSM /\ IdleTrain
Spec == Init /\ [][NextViT]_vars

\* PositionalEncoding on its own
StartPE == InitViT /\ InitPE /\ InitMHA /\ IdleSM /\ IdleTrain
SpecPE == StartPE /\ [][NextPE]_vars

\* MultiHeadAttention on its own
StartMHA == InitViT /\ IdlePE /\ InitMHA /\ IdleSM /\ IdleTrain
SpecMHA == StartMHA /\ [][NextMHA]_vars

\* the classifier's softmax
StartSM == InitViT /\ IdlePE /\ InitMHA /\ InitSM /\ IdleTrain
SpecSM == StartSM /\ [][NextSM]_vars

\* the training cell
StartTrain == InitViT /\ IdlePE /\ InitMHA /\ IdleSM /\ InitTrain
SpecTrain == StartTrain /\ [][NextTrain]_vars

----------------------------------------------------------------------------
(* Properties of VisionTransformer (checked under Spec) *)

\* b divides a, for a >= 0
Divides(b, a) == \E q \in 0..a : a = q * b

BadConfig(c) ==
    \/ ~Divides(c.patch_size[1], c.img_size[1])
    \/ ~Divides(c.patch_size[2], c.img_size[2])
    \/ ~Divides(c.num_heads, c.model_dim)

\* the batch handed to forward has the configured channels, height and width
ConfiguredInput ==
    /\ images # <<>>
    /\ images[2] = vit.num_channels
    /\ images[3] = vit.img_size[1]
    /\ images[4] = vit.img_size[2]

\* C1: a configuration whose image size is not divisible by the patch size (in either
\* dimension) or whose model_dim is not divisible by num_heads makes construction fail
\* before any sub-module is built; it never yields a model and forward is never run.
C1_ConstructionFailsFast ==
    (config # <<>> /\ BadConfig(config)) =>
        /\ ~vit.ok
        /\ vit.exc \in {"AssertionError", "ZeroDivisionError"}
        /\ vit.built = <<>>
        /\ pc = "failed"
        /\ images = <<>> /\ trace = <<>>

C1_Witness ==
    /\ config # <<>>
    /\ Divides(config.patch_size[1], config.img_size[1])
    /\ ~Divides(config.patch_size[2], config.img_size[2])
    /\ Divides(config.num_heads, config.model_dim)
    /\ pc = "failed"
    /\ vit.exc = "AssertionError"

\* C2: for an accepted configuration and an input of the configured size, patch
\* embedding yields (H/ph)*(W/pw) tokens of width model_dim; that count is num_patches
\* = (H*W)//(ph*pw), and num_patches + 1 = max_seq_length = rows of the positional
\* table.  The reference configuration has num_patches = 4 and max_seq_length = 5.
C2_PatchCountMatchesTable ==
    vit.ok =>
        LET grid == (vit.img_size[1] \div vit.patch_size[1]) * (vit.img_size[2] \div vit.patch_size[2])
        IN  /\ vit.num_patches = grid
            /\ vit.max_seq_length = grid + 1
            /\ vit.positional_encoding.pe_shape[2] = vit.max_seq_length
            /\ Cardinality(DOMAIN vit.positional_encoding.pe) = vit.max_seq_length
            /\ (config = RefConfig => vit.num_patches = 4 /\ vit.max_seq_length = 5)
            /\ (ConfiguredInput /\ Len(trace) >= 1) =>
                  /\ ~(pc = "raised" /\ Len(trace) <= 2)
                  /\ (pc = "positional_encoding" => x = <<images[1], grid, vit.model_dim>>)
                  /\ (pc = "transformer_encoder" => x[2] = vit.max_seq_length)

C2_Witness ==
    /\ config = RefConfig
    /\ pc = "transformer_encoder"
    /\ images = <<MaxBatch, 1, 32, 32>>
    /\ x = <<MaxBatch, 5, 9>>

\* the sub-modules a complete forward call runs, in order
ExpectedTrace ==
    <<"patch_embedding", "positional_encoding">>
    \o [l \in 1..config.num_layers |-> "transformer_encoder"]
    \o <<"classifer">>

\* C3: for an accepted configuration, forward maps (B, C, H, W) to (B, num_classes);
\* it runs patch embedding, positional encoding, the num_layers encoder blocks and the
\* classifier in that order; every encoder block returns the (B, S, D) shape it was
\* given; the classifier reads row 0 of the sequence only.
C3_ForwardShape ==
    (vit.ok /\ Len(trace) >= 1) =>
        /\ ConfiguredInput => pc # "raised"
        /\ trace = SubSeq(ExpectedTrace, 1, Len(trace))
        /\ (pc = "transformer_encoder" =>
                /\ x = <<images[1], vit.max_seq_length, vit.model_dim>>
                /\ layer = Len(trace) - 2
                /\ cls_rows = {})
        /\ (pc = "returned" =>
                /\ x = <<images[1], vit.num_classes>>
                /\ trace = ExpectedTrace
                /\ cls_rows = {0})

C3_Witness ==
    /\ pc = "returned"
    /\ ConfiguredInput
    /\ config.num_layers = MaxLayers
    /\ config.num_heads = 2
    /\ images[1] = MaxBatch
    /\ vit.max_seq_length > 2
    /\ x = <<MaxBatch, config.num_classes>>

\* C4: forward fails, and returns nothing, whenever the batch's channel count, height
\* or width differs from the configured one.
C4_ForwardRejectsMismatch ==
    pc = "returned" => ConfiguredInput

----------------------------------------------------------------------------
(* Properties of PositionalEncoding (checked under SpecPE) *)

\* C5: PositionalEncoding.forward on P tokens returns P + 1 tokens, and returns at all
\* only when P + 1 is the max_seq_length of the table; otherwise it raises.
C5_PEForwardChecksLength ==
    (pe_in # <<>> /\ pe_out.ok) =>
        /\ pe_in[2] + 1 = posenc.pe_shape[2]
        /\ pe_out.shape[2] = pe_in[2] + 1

----------------------------------------------------------------------------
(* Properties of MultiHeadAttention (checked under SpecMHA) *)

\* C6: every MultiHeadAttention that construction accepts has head_size >= 1 and
\* head_size * num_heads = model_dim; other arguments are rejected by the constructor.
C6_HeadSizeInvariant ==
    (mha_args # <<>> /\ mha.ok) =>
        /\ mha.head_size >= 1
        /\ mha.head_size * mha_args[2] = mha_args[1]

----------------------------------------------------------------------------
(* Properties of the classifier's softmax (checked under SpecSM) *)

\* sum of the first n fractions of a row
RECURSIVE RowSum(_, _)
RowSum(row, n) ==
    IF n = 0 THEN [num |-> 0, den |-> 1]
    ELSE LET r == RowSum(row, n - 1)
         IN  [num |-> r.num * row[n].den + row[n].num * r.den, den |-> r.den * row[n].den]

RowSumIsOne(row) == LET r == RowSum(row, Len(row)) IN r.den > 0 /\ r.num = r.den

\* no exponential of the row underflows
NoUnderflow(row) == \A a, b \in 1..Len(row) : row[a] - row[b] <= ExpBits

----------------------------------------------------------------------------
(* Properties of the training cell (checked under SpecTrain) *)

PETable == "positional_encoding.pe"

C7_Inv ==
    tpc # "off" =>
        /\ tensors[PETable] = 0
        /\ PETable \notin opt_params
        /\ PETable \notin grads

C7_Step ==
    /\ (tpc \in {"train_forward", "valid_forward"} => tensors' = tensors)
    /\ (tensors' # tensors => tpc = "opt_step" /\ tpc' = "train_stats")
    /\ (tensors' # tensors => \A n \in DOMAIN tensors : tensors'[n] # tensors[n] => n \in Parameters)

\* C7: a forward call leaves every parameter and the positional table as they were;
\* through the whole training loop the positional table keeps its construction-time
\* value and is not among the optimizer's tensors; parameters change in
\* optimizer.step() only.
C7_ModelStateFrame == [](C7_Inv) /\ [][C7_Step]_vars

C7_Witness ==
    /\ tpc = "valid_next"
    /\ vj = n_valid
    /\ tensors["positional_encoding.cls_token"] = 2
    /\ tensors[PETable] = 0
    /\ \E f \in fed : f.loop = "valid"

\* C9: each iteration of the validation loop drops the batch drawn from valid_loader
\* and runs the model on `data`, the training batch last drawn by the enclosing loop;
\* the validation sums are over training batches and no validation batch is ever fed
\* to the model.
C9_ValidationUsesTrainingBatch ==
    /\ \A f \in fed : f.batch.kind = "train"
    /\ tpc = "valid_forward" =>
          /\ drawn = [kind |-> "valid", epoch |-> epoch, idx |-> vj - 1]
          /\ data = [kind |-> "train", epoch |-> epoch, idx |-> ti - 1]
          /\ inputs = data
          /\ inputs # drawn
    /\ tpc = "valid_next" =>
          /\ Len(valid_loss) = vj
          /\ \A q \in 1..Len(valid_loss) : valid_loss[q].batch = data
    /\ \A e \in 1..Len(printed) :
          \A q \in 1..Len(printed[e].valid_loss) : printed[e].valid_loss[q].batch.kind = "train"

C9_Witness ==
    /\ tpc = "valid_next"
    /\ ti = 2
    /\ vj = 2
    /\ Len(valid_loss) = 2
    /\ valid_loss[2].batch = [kind |-> "train", epoch |-> epoch, idx |-> 1]
    /\ drawn.kind = "valid"

InTrainingIteration == tpc \in {"zero_grad", "train_forward", "backward", "opt_step", "train_stats"}

\* C10: the model is put in training mode once per epoch and in evaluation mode after
\* every training batch; a full validation pass, with its counters reset, runs inside
\* each training iteration; so every optimizer step of an epoch but the first runs in
\* evaluation mode, and the validation figures printed for the epoch are those of the
\* pass that followed the last training batch.
C10_EvalModeTraining ==
    /\ \A q \in 1..Len(step_modes) : step_modes[q] = IF q = 1 THEN "train" ELSE "eval"
    /\ (InTrainingIteration /\ ti = 1) => mode = "train"
    /\ (InTrainingIteration /\ ti >= 2) => mode = "eval"
    /\ tpc \in {"valid_next", "valid_forward"} => mode = "eval"
    /\ (tpc = "train_next" /\ ti >= 1) =>
          /\ mode = "eval"
          /\ vj = n_valid
          /\ Len(valid_loss) = n_valid
          /\ Len(step_modes) = ti
    /\ \A e \in 1..Len(printed) :
          /\ printed[e].total = n_train * BatchLen
          /\ printed[e].total_valid = n_valid * BatchLen
          /\ Len(printed[e].valid_loss) = n_valid
          /\ \A q \in 1..n_valid :
                /\ printed[e].valid_loss[q].batch = [kind |-> "train", epoch |-> e - 1, idx |-> n_train - 1]
                /\ printed[e].valid_loss[q].params = printed[e].params

C10_Witness ==
    /\ Len(printed) = 1
    /\ n_train = 3
    /\ n_valid = 2
    /\ tpc = "train_stats"
    /\ step_modes = <<"train", "eval", "eval">>

====
